---- MODULE Spec2Model ----
(***************************************************************************)
(* Model of the signal-derivation pipeline of src/src/App.tsx: the news    *)
(* load (five feeds, merge, classification), the correlated price fetch,   *)
(* the macro fetch and the trade idea engine, with React's effects as      *)
(* pending recomputations.                                                 *)
(*                                                                         *)
(* Text is a sequence of one-character strings, so that includes,          *)
(* toLowerCase, replace and substring are computed and not assumed.        *)
(* A field that is undefined, null or "" is the empty sequence: the code   *)
(* reads every optional field through `x || default`, which treats the     *)
(* three alike.  Percentages are integers in hundredths of a percent,      *)
(* volumes integers in units of 1e9 USD.                                   *)
(***************************************************************************)
EXTENDS Integers, Sequences, FiniteSets, TLC

\* The fields of the model's records and where each occurs.  TLC keeps the
\* fields of a record in the order in which their names first appear in the
\* module, which is this one; every record below is written in this order, so
\* that a constant record is never reordered while TLC's workers share it.
Fields ==
  [ arg |-> "call: the argument",
    btc |-> "macro payload: the bitcoin entry",
    category |-> "news item, idea",
    chg |-> "asset: usd_24h_change",
    conviction |-> "idea",
    cycle |-> "draw pattern: picks of the first 50 items",
    data |-> "macro request, price request: the payload received",
    description |-> "raw item",
    e |-> "delivered item: its endpoint",
    edge |-> "idea",
    eth |-> "macro payload: the ethereum entry",
    fn |-> "call: the function called",
    guid |-> "raw item",
    horizon |-> "idea",
    i |-> "flattened raw item: the index flatMap passed",
    id |-> "news item, idea",
    impact |-> "news item, draw",
    item |-> "flattened raw item",
    items |-> "feed payload",
    k |-> "figure: its kind",
    late |-> "draw pattern: picks of the later items",
    link |-> "raw item",
    liqDesc |-> "macro",
    liqLabel |-> "macro",
    nan |-> "number: it is NaN",
    news |-> "price request: liveNews of its closure",
    out |-> "call: the value returned",
    priceMove |-> "news item",
    pubDate |-> "raw item",
    res |-> "feed: what its promise resolved to",
    risk |-> "idea",
    sentiment |-> "news item, draw",
    shape |-> "payload, raw item: the kind of JSON value",
    source |-> "news item",
    st |-> "request, call: its status",
    summary |-> "news item, idea",
    tag |-> "idea",
    tags |-> "news item",
    timeAgo |-> "news item",
    title |-> "raw item, news item, idea",
    tokens |-> "price request: the asset ids asked for",
    trendDesc |-> "macro",
    trendLabel |-> "macro",
    v |-> "figure, number: its value",
    vol |-> "asset: usd_24h_vol",
    volaDesc |-> "macro",
    volaLabel |-> "macro" ]

\* ------------------------------------------------------------------ text

Whitespace == {" ", "\t", "\n"}

Upper == <<"A","B","C","D","E","F","G","H","I","J","K","L","M",
           "N","O","P","Q","R","S","T","U","V","W","X","Y","Z">>

Lower == <<"a","b","c","d","e","f","g","h","i","j","k","l","m",
           "n","o","p","q","r","s","t","u","v","w","x","y","z">>

Letters == {Upper[k] : k \in 1..26} \cup {Lower[k] : k \in 1..26}

\* String.prototype.toLowerCase, one character
LowerChar(c) ==
  IF \E k \in 1..26 : Upper[k] = c
  THEN Lower[CHOOSE k \in 1..26 : Upper[k] = c]
  ELSE c

toLowerCase(t) == [k \in 1..Len(t) |-> LowerChar(t[k])]

\* String.prototype.includes
includes(t, kw) ==
  \E i \in 0..(Len(t) - Len(kw)) : SubSeq(t, i + 1, i + Len(kw)) = kw

\* t starts with p at position i
StartsAt(t, i, p) ==
  /\ i + Len(p) - 1 <= Len(t)
  /\ SubSeq(t, i, i + Len(p) - 1) = p

\* least j >= i with t[j] = c, or 0
RECURSIVE IndexFrom(_, _, _)
IndexFrom(t, i, c) ==
  IF i > Len(t) THEN 0
  ELSE IF t[i] = c THEN i
  ELSE IndexFrom(t, i + 1, c)

\* first position >= i holding a whitespace character, or Len(t)+1
RECURSIVE EndOfNonSpace(_, _)
EndOfNonSpace(t, i) ==
  IF i > Len(t) THEN i
  ELSE IF t[i] \in Whitespace THEN i
  ELSE EndOfNonSpace(t, i + 1)

\* html.replace(/<[^>]+>/g, ""): "<", one or more characters other than ">", ">"
RECURSIVE StripTagsFrom(_, _)
StripTagsFrom(t, i) ==
  IF i > Len(t) THEN << >>
  ELSE IF t[i] = "<" /\ IndexFrom(t, i + 1, ">") > i + 1
       THEN StripTagsFrom(t, IndexFrom(t, i + 1, ">") + 1)
       ELSE <<t[i]>> \o StripTagsFrom(t, i + 1)

StripTags(t) == StripTagsFrom(t, 1)

HttpPrefix == <<"h","t","t","p",":","/","/">>

HttpsPrefix == <<"h","t","t","p","s",":","/","/">>

\* length of the scheme of a URL matched by /https?:\/\/\S+/ at i, or 0
UrlSchemeAt(t, i) ==
  IF StartsAt(t, i, HttpsPrefix) /\ EndOfNonSpace(t, i + 8) > i + 8 THEN 8
  ELSE IF StartsAt(t, i, HttpPrefix) /\ EndOfNonSpace(t, i + 7) > i + 7 THEN 7
  ELSE 0

\* text.replace(/https?:\/\/\S+/g, "")
RECURSIVE StripUrlsFrom(_, _)
StripUrlsFrom(t, i) ==
  IF i > Len(t) THEN << >>
  ELSE IF UrlSchemeAt(t, i) > 0
       THEN StripUrlsFrom(t, EndOfNonSpace(t, i + UrlSchemeAt(t, i)))
       ELSE <<t[i]>> \o StripUrlsFrom(t, i + 1)

StripUrls(t) == StripUrlsFrom(t, 1)

\* text.replace(/\s+/g, " "): every run of whitespace becomes one space
RECURSIVE CollapseFrom(_, _)
CollapseFrom(t, i) ==
  IF i > Len(t) THEN << >>
  ELSE IF t[i] \in Whitespace
       THEN IF i > 1 /\ t[i - 1] \in Whitespace
            THEN CollapseFrom(t, i + 1)
            ELSE <<" ">> \o CollapseFrom(t, i + 1)
       ELSE <<t[i]>> \o CollapseFrom(t, i + 1)

CollapseSpaces(t) == CollapseFrom(t, 1)

\* String.prototype.trim
RECURSIVE TrimLeft(_)
TrimLeft(t) ==
  IF t # << >> /\ Head(t) \in Whitespace THEN TrimLeft(Tail(t)) ELSE t

RECURSIVE TrimRight(_)
TrimRight(t) ==
  IF t # << >> /\ t[Len(t)] \in Whitespace
  THEN TrimRight(SubSeq(t, 1, Len(t) - 1))
  ELSE t

trim(t) == TrimRight(TrimLeft(t))

\* the character references the model decodes
EntityLt == <<"&","l","t",";">>

EntityGt == <<"&","g","t",";">>

EntityAmp == <<"&","a","m","p",";">>

\* div.innerHTML = html; div.textContent: a "<" followed by a letter, "/", "!"
\* or "?" opens markup that ends at the next ">" (or at the end of the input),
\* any other "<" is text, and character references are decoded.
RECURSIVE TextContentFrom(_, _)
TextContentFrom(t, i) ==
  IF i > Len(t) THEN << >>
  ELSE IF t[i] = "<" /\ i < Len(t) /\ t[i + 1] \in (Letters \cup {"/", "!", "?"})
       THEN IF IndexFrom(t, i + 1, ">") = 0
            THEN << >>
            ELSE TextContentFrom(t, IndexFrom(t, i + 1, ">") + 1)
  ELSE IF StartsAt(t, i, EntityLt) THEN <<"<">> \o TextContentFrom(t, i + 4)
  ELSE IF StartsAt(t, i, EntityGt) THEN <<">">> \o TextContentFrom(t, i + 4)
  ELSE IF StartsAt(t, i, EntityAmp) THEN <<"&">> \o TextContentFrom(t, i + 5)
  ELSE <<t[i]>> \o TextContentFrom(t, i + 1)

textContent(t) == TextContentFrom(t, 1)

NoSummary == <<"N","o"," ","s","u","m","m","a","r","y"," ","a","v","a","i","l","a","b","l","e",".">>

\* a truthy value that is not a string (an object, a number)
NotAString == <<"[object Object]">>

OrElse(x, d) == IF x = << >> THEN d ELSE x

\* cleanSummary(html); dom: window.document is available
cleanSummary(html, dom) ==
  IF html = << >> \/ html = NotAString THEN NoSummary
  ELSE IF dom
       THEN OrElse(trim(CollapseSpaces(StripUrls(textContent(html)))), NoSummary)
       ELSE OrElse(trim(CollapseSpaces(StripUrls(StripTags(html)))), NoSummary)

\* ------------------------------------------------------------ classifier

KwAI == { <<"a","i">>,
          <<"m","a","c","h","i","n","e"," ","l","e","a","r","n","i","n","g">>,
          <<"n","v","i","d","i","a">> }

KwLayer2 == { <<"l","a","y","e","r"," ","2">>, <<"s","c","a","l","i","n","g">>,
              <<"l","2">>, <<"r","o","l","l","u","p">> }

KwLST == { <<"s","t","a","k","i","n","g">>,
           <<"l","i","q","u","i","d"," ","s","t","a","k","i","n","g">>,
           <<"r","e","s","t","a","k","i","n","g">> }

KwGaming == { <<"n","f","t">>, <<"g","a","m","i","n","g">>,
              <<"m","e","t","a","v","e","r","s","e">> }

KwDeFi == { <<"d","e","f","i">>, <<"d","e","x">>,
            <<"u","n","i","s","w","a","p">>, <<"a","a","v","e">> }

KwSolana == { <<"s","o","l","a","n","a">>, <<"s","o","l">> }

KwStable == { <<"s","t","a","b","l","e","c","o","i","n">>,
              <<"u","s","d","t">>, <<"u","s","d","c">> }

IncludesAny(t, kws) == \E kw \in kws : includes(t, kw)

\* classifyCategory with the Solana rule tested before the DeFi rule
classifyCategoryMut(text) ==
  IF text = << >> THEN "General"
  ELSE LET t == toLowerCase(text) IN
       IF IncludesAny(t, KwAI) THEN "AI"
       ELSE IF IncludesAny(t, KwLayer2) THEN "Layer2"
       ELSE IF IncludesAny(t, KwLST) THEN "LST"
       ELSE IF IncludesAny(t, KwGaming) THEN "Gaming"
       ELSE IF IncludesAny(t, KwSolana) THEN "Solana"
       ELSE IF IncludesAny(t, KwDeFi) THEN "DeFi"
       ELSE IF IncludesAny(t, KwStable) THEN "Stable"
       ELSE "General"

\* classifyCategory(text)
classifyCategory(text) ==
  IF text = << >> THEN "General"
  ELSE LET t == toLowerCase(text) IN
       IF IncludesAny(t, KwAI) THEN "AI"
       ELSE IF IncludesAny(t, KwLayer2) THEN "Layer2"
       ELSE IF IncludesAny(t, KwLST) THEN "LST"
       ELSE IF IncludesAny(t, KwGaming) THEN "Gaming"
       ELSE IF IncludesAny(t, KwDeFi) THEN "DeFi"
       ELSE IF IncludesAny(t, KwSolana) THEN "Solana"
       ELSE IF IncludesAny(t, KwStable) THEN "Stable"
       ELSE "General"

\* CATEGORY_ASSET_MAP[category] || CATEGORY_ASSET_MAP.General
CategoryAsset(category) ==
  CASE category = "AI" -> "render-token"
    [] category = "Layer2" -> "matic-network"
    [] category = "LST" -> "lido-dao"
    [] category = "Gaming" -> "immutable-x"
    [] category = "DeFi" -> "uniswap"
    [] category = "Solana" -> "solana"
    [] category = "Stable" -> "tether"
    [] OTHER -> "bitcoin"

\* ------------------------------------------------------------ news load

\* EXCHANGE_NEWS_ENDPOINTS[i].name
EndpointName ==
  << <<"B","i","n","a","n","c","e">>,
     <<"B","y","b","i","t">>,
     <<"O","K","X">>,
     <<"C","o","i","n","t","e","l","e","g","r","a","p","h">>,
     <<"C","o","i","n","d","e","s","k">> >>

Endpoints == 1..Len(EndpointName)

Untitled == <<"U","n","t","i","t","l","e","d">>

NA == <<"N","/","A">>

sentiments == <<"Bullish", "Bearish", "Neutral", "Cautious">>

impacts == <<"High", "Medium", "Low">>

\* what a fetch that failed (or whose body was no JSON) leaves in results
NullResult == [items |-> << >>, shape |-> "falsy"]

\* res && Array.isArray(res.items) ? res.items : []
ItemsOf(res) == IF res.shape = "array" THEN res.items ELSE << >>

\* FilterBoolean without the per-source catch: one failure rejects the batch
FilterBooleanMut(results) ==
  IF \E i \in 1..Len(results) : results[i].shape = "falsy" THEN << >> ELSE results

\* results.filter(Boolean)
FilterBoolean(results) == SelectSeq(results, LAMBDA res : res.shape # "falsy")

\* the index the merge hands to EXCHANGE_NEWS_ENDPOINTS for the i-th kept result
EndpointIndex(results, i) == i

\* the raw items of the kept results, each with the index flatMap passes
RECURSIVE FlatRaw(_, _)
FlatRaw(kept, i) ==
  IF i > Len(kept) THEN << >>
  ELSE [k \in 1..Len(ItemsOf(kept[i])) |-> [i |-> i, item |-> ItemsOf(kept[i])[k]]]
       \o FlatRaw(kept, i + 1)

\* reading item.description of null or undefined throws a TypeError
MergeThrows(results) ==
  \E n \in 1..Len(FlatRaw(FilterBoolean(results), 1)) :
     FlatRaw(FilterBoolean(results), 1)[n].item.shape = "null"

\* the NewsItem built from one raw item; draw: the two Math.random() picks
MakeNewsItem(item, name, draw, dom) ==
  LET summary == cleanSummary(OrElse(item.description, NoSummary), dom)
      title == OrElse(item.title, Untitled)
      category == classifyCategory(title \o <<" ">> \o summary)
  IN [ category |-> category,
       id |-> OrElse(item.guid, OrElse(item.link, name \o <<"-">> \o title)),
       impact |-> impacts[draw.impact],
       priceMove |-> NA,
       sentiment |-> sentiments[draw.sentiment],
       source |-> name,
       summary |-> summary,
       tags |-> <<name, <<category>> >>,
       timeAgo |-> item.pubDate,
       title |-> title ]

\* .slice(0, 60)
MaxNews == 60

Slice(s, n) == SubSeq(s, 1, IF Len(s) < n THEN Len(s) ELSE n)

\* Merged without .slice(0, 60)
MergedMut(results, draws, dom) ==
  LET raw == FlatRaw(FilterBoolean(results), 1)
  IN [n \in 1..Len(raw) |->
        MakeNewsItem(raw[n].item,
                     EndpointName[EndpointIndex(results, raw[n].i)],
                     draws[n], dom)]

\* merged; draws[n]: the random picks of the n-th mapped item
Merged(results, draws, dom) ==
  LET raw == FlatRaw(FilterBoolean(results), 1)
  IN Slice([n \in 1..Len(raw) |->
              MakeNewsItem(raw[n].item,
                           EndpointName[EndpointIndex(results, raw[n].i)],
                           draws[n], dom)],
           MaxNews)

\* ---------------------------------------------------------- macro fetch

\* A figure of a price payload: a number (v), absent (undefined, null, 0, "")
\* or junk (a truthy value Number() turns into NaN).
Fig(v) == [k |-> "num", v |-> v]

AbsentFig == [k |-> "absent", v |-> 0]

JunkFig == [k |-> "junk", v |-> 0]

\* Number(x || 0)
NumberOr0(f) ==
  IF f.k = "junk" THEN [nan |-> TRUE, v |-> 0]
  ELSE IF f.k = "num" THEN [nan |-> FALSE, v |-> f.v]
  ELSE [nan |-> FALSE, v |-> 0]

\* a + b on numbers that may be NaN
Plus(a, b) == [nan |-> a.nan \/ b.nan, v |-> IF a.nan \/ b.nan THEN 0 ELSE a.v + b.v]

\* a > c and a < c: false when a is NaN
Gt(a, c) == ~a.nan /\ a.v > c

Lt(a, c) == ~a.nan /\ a.v < c

\* Math.abs
Abs(a) == [nan |-> a.nan, v |-> IF a.v < 0 THEN -a.v ELSE a.v]

\* (btcChg + ethChg) / 2, kept as the sum: avgChg > c iff the sum > 2c.
\* The changes are hundredths of a percent, so c percent is 100c.
ChgSum(data) == Plus(NumberOr0(data.btc.chg), NumberOr0(data.eth.chg))

AvgGt(sum, c) == Gt(sum, 2 * 100 * c)

AvgLt(sum, c) == Lt(sum, 2 * 100 * c)

\* TrendLabel with >= for the first threshold
TrendLabelMut(sum) ==
  IF ~AvgLt(sum, 3) /\ ~sum.nan THEN "Strong Bull"
  ELSE IF AvgGt(sum, 1) THEN "Mild Bull"
  ELSE IF AvgLt(sum, -3) THEN "Strong Bear"
  ELSE IF AvgLt(sum, -1) THEN "Mild Bear"
  ELSE "Sideways"

TrendLabel(sum) ==
  IF AvgGt(sum, 3) THEN "Strong Bull"
  ELSE IF AvgGt(sum, 1) THEN "Mild Bull"
  ELSE IF AvgLt(sum, -3) THEN "Strong Bear"
  ELSE IF AvgLt(sum, -1) THEN "Mild Bear"
  ELSE "Sideways"

TrendDesc(label) ==
  CASE label = "Strong Bull" -> "BTC/ETH show strong upside over the last 24h."
    [] label = "Mild Bull" -> "Upside bias with modest 24h gains."
    [] label = "Strong Bear" -> "Heavy downside pressure in majors over the last 24h."
    [] label = "Mild Bear" -> "Downside bias with controlled drawdown."
    [] OTHER -> "Major pairs trade flat on the day."

\* VolaLabel with High Stress from the Elevated threshold on
VolaLabelMut(sum) ==
  IF AvgGt(Abs(sum), 2) THEN "High Stress"
  ELSE "Calm"

VolaLabel(sum) ==
  IF AvgGt(Abs(sum), 4) THEN "High Stress"
  ELSE IF AvgGt(Abs(sum), 2) THEN "Elevated"
  ELSE "Calm"

VolaDesc(label) ==
  CASE label = "High Stress" -> "Large 24h moves imply stressed volatility conditions."
    [] label = "Elevated" -> "Realised volatility is elevated vs. typical sessions."
    [] OTHER -> "24h realised volatility is subdued in majors."

\* volumes are in units of 1e9
TotalVol(data) == Plus(NumberOr0(data.btc.vol), NumberOr0(data.eth.vol))

\* LiqLabel with >= for the Normal threshold
LiqLabelMut(totalVol) ==
  IF Gt(totalVol, 50) THEN "Deep"
  ELSE IF Gt(totalVol, 19) THEN "Normal"
  ELSE IF Gt(totalVol, 0) THEN "Thinner"
  ELSE "Unknown"

LiqLabel(totalVol) ==
  IF Gt(totalVol, 50) THEN "Deep"
  ELSE IF Gt(totalVol, 20) THEN "Normal"
  ELSE IF Gt(totalVol, 0) THEN "Thinner"
  ELSE "Unknown"

LiqDesc(label) ==
  CASE label = "Deep" -> "Liquidity conditions are strong across BTC & ETH."
    [] label = "Normal" -> "Liquidity looks in line with recent averages."
    [] label = "Thinner" -> "Volumes are lighter than usual, watch for slippage."
    [] OTHER -> "Awaiting volume data."

\* the object loadMacro hands to setMacro
ComputeMacro(data) ==
  [ liqDesc |-> LiqDesc(LiqLabel(TotalVol(data))),
    liqLabel |-> LiqLabel(TotalVol(data)),
    trendDesc |-> TrendDesc(TrendLabel(ChgSum(data))),
    trendLabel |-> TrendLabel(ChgSum(data)),
    volaDesc |-> VolaDesc(VolaLabel(ChgSum(data))),
    volaLabel |-> VolaLabel(ChgSum(data)) ]

\* useState({ trendLabel: "Loading...", ... })
InitialMacro ==
  [ liqDesc |-> "",
    liqLabel |-> "Loading...",
    trendDesc |-> "Fetching live market data...",
    trendLabel |-> "Loading...",
    volaDesc |-> "",
    volaLabel |-> "Loading..." ]

\* data.bitcoin || {} with both figures absent
NoAsset == [chg |-> AbsentFig, vol |-> AbsentFig]

\* a macro payload: an object (with its two assets) or JSON null
MacroPayload(btc, eth) == [btc |-> btc, eth |-> eth, shape |-> "object"]

NullMacroPayload == [btc |-> NoAsset, eth |-> NoAsset, shape |-> "null"]

\* ------------------------------------------------- correlated price fetch

Digit == <<"0","1","2","3","4","5","6","7","8","9">>

\* the decimal digits of n >= 0
RECURSIVE IntChars(_)
IntChars(n) ==
  IF n < 10 THEN <<Digit[n + 1]>>
  ELSE IntChars(n \div 10) \o <<Digit[(n % 10) + 1]>>

\* A 24h change of the price payload, in thousandths of a percent: a number,
\* or none (no entry for the asset, or an entry whose usd_24h_change is no
\* number).  JSON carries no NaN.
Pct(v) == [k |-> "num", v |-> v]

NoPct == [k |-> "none", v |-> 0]

\* pct.toFixed(2): the magnitude rounded to hundredths, "-" for pct < 0
toFixed2(v) ==
  LET m == IF v < 0 THEN -v ELSE v
      r == (m + 5) \div 10
  IN (IF v < 0 THEN <<"-">> ELSE << >>)
     \o IntChars(r \div 100) \o <<".">>
     \o <<Digit[((r % 100) \div 10) + 1], Digit[(r % 10) + 1]>>

\* (pct > 0 ? "+" : "") + pct.toFixed(2) + "%"
FormatMove(info) ==
  IF info.k = "none" THEN NA
  ELSE (IF info.v > 0 THEN <<"+">> ELSE << >>) \o toFixed2(info.v) \o <<"%">>

\* Dedup without the Set
DedupMut(s) == s

\* Array.from(new Set(s)): a Set keeps insertion order, so the first
\* occurrences, in order
Dedup(s) ==
  LET firsts == {k \in 1..Len(s) : \A j \in 1..(k - 1) : s[j] # s[k]}
      nth(n) == CHOOSE k \in firsts : Cardinality({j \in firsts : j < k}) = n - 1
  IN [n \in 1..Cardinality(firsts) |-> s[nth(n)]]

\* tokens of loadCorrelatedMoves
Tokens(news) == Dedup([k \in 1..Len(news) |-> CategoryAsset(news[k].category)])

\* Updated as a filter: the items without a price are dropped
UpdatedMut(news, data) ==
  SelectSeq([k \in 1..Len(news) |->
               [news[k] EXCEPT !.priceMove = FormatMove(data[CategoryAsset(news[k].category)])]],
            LAMBDA n : n.priceMove # NA)

\* updated of loadCorrelatedMoves; data: asset id -> 24h change
Updated(news, data) ==
  [k \in 1..Len(news) |->
     [news[k] EXCEPT !.priceMove = FormatMove(data[CategoryAsset(news[k].category)])]]

Assets == {"render-token", "matic-network", "lido-dao", "immutable-x",
           "uniswap", "solana", "tether", "bitcoin"}

\* a payload without any of the assets (also held by a request not yet answered)
NoData == [a \in Assets |-> NoPct]

\* ------------------------------------------------------ trade idea engine

\* TopNews without the cut: the whole list
TopNewsMut(news) == news

\* liveNews.slice(0, 50)
TopNews(news) == Slice(news, 50)

HighImpact(news) == SelectSeq(TopNews(news), LAMBDA n : n.impact = "High")

Bullish(news) == SelectSeq(HighImpact(news), LAMBDA n : n.sentiment = "Bullish")

Bearish(news) == SelectSeq(HighImpact(news), LAMBDA n : n.sentiment = "Bearish")

\* macro.trendLabel.includes("Bull"), on the labels the program can hold
LabelIncludes(label, word) ==
  \/ word = "Bull" /\ label \in {"Strong Bull", "Mild Bull"}
  \/ word = "Bear" /\ label \in {"Strong Bear", "Mild Bear"}

LongBtc(conviction) ==
  [ category |-> "Directional", conviction |-> conviction, edge |-> "+1.6%",
    horizon |-> "4-12h", id |-> "long-btc",
    risk |-> "Stop below local lows. Reduce size if volatility flips into High Stress.",
    summary |-> <<"Macro environment shows bullish pressure with supportive high-impact headlines. AI models lean long BTC.">>,
    tag |-> "LONG BTC PERP",
    title |-> <<"Align with macro bull impulse">> ]

ShortBtc(conviction) ==
  [ category |-> "Directional", conviction |-> conviction, edge |-> "+1.9%",
    horizon |-> "4-10h", id |-> "short-btc",
    risk |-> "Avoid chasing lows. Stop above local highs.",
    summary |-> <<"Bearish macro trend confirmed by high-impact negative news. AI models favour shorting BTC on bounces.">>,
    tag |-> "SHORT BTC PERP",
    title |-> <<"Fade macro downside pressure">> ]

EthAlt ==
  [ category |-> "Relative Value", conviction |-> "Medium", edge |-> "+1.2%",
    horizon |-> "1-3d", id |-> "eth-alt",
    risk |-> "Avoid overweighting single-name shorts. Maintain diversified hedge.",
    summary |-> <<"AI detects heavy altcoin narrative rotations while ETH remains liquidity anchor. Long ETH / short small alt basket.">>,
    tag |-> "PAIRS TRADE",
    title |-> <<"Long ETH vs altcoin hype basket">> ]

RiskWarning ==
  [ category |-> "Risk Management", conviction |-> "High", edge |-> "Protect PnL",
    horizon |-> "Current session", id |-> "risk-warning",
    risk |-> "High risk of chop or liquidation cascades in thin conditions.",
    summary |-> <<"Volatility or liquidity stress detected by macro engine. Reduce exposure & tighten stops.">>,
    tag |-> "RISK WATCH",
    title |-> <<"Tighten exposure under stressed conditions">> ]

NoEdge ==
  [ category |-> "Neutral", conviction |-> "Low", edge |-> "Flat",
    horizon |-> "Wait", id |-> "no-edge",
    risk |-> "Avoid forcing trades in low-edge environments.",
    summary |-> <<"Macro + news signals do not align. AI recommends waiting for clearer asymmetry.">>,
    tag |-> "NO STRONG EDGE",
    title |-> <<"No high-probability setups detected">> ]

\* `news-idea-${idx}`
NewsIdeaId == <<"news-idea-0", "news-idea-1", "news-idea-2", "news-idea-3", "news-idea-4">>

\* the idea pushed for the idx-th (from 0) high-impact item n
NewsIdea(n, idx, edge) ==
  [ category |-> "Narrative",
    conviction |-> IF idx % 2 = 0 THEN "Medium" ELSE "Low",
    edge |-> edge,
    horizon |-> "6-18h",
    id |-> NewsIdeaId[idx + 1],
    risk |-> "News-driven trade. Tight stops recommended.",
    summary |-> Slice(n.summary, 120) \o <<"...">>,
    tag |-> IF n.sentiment = "Bullish" THEN "MOMO LONG"
            ELSE IF n.sentiment = "Bearish" THEN "MOMO SHORT"
            ELSE "THEME IDEA",
    title |-> <<"Play ">> \o n.source \o <<" narrative on ", n.sentiment, " flow">> ]

\* Directional with a tie of the counts read as High for the long idea
DirectionalMut(m, news) ==
  IF LabelIncludes(m.trendLabel, "Bull")
  THEN <<LongBtc(IF Len(Bullish(news)) >= Len(Bearish(news)) THEN "High" ELSE "Medium")>>
  ELSE IF LabelIncludes(m.trendLabel, "Bear")
  THEN <<ShortBtc(IF Len(Bearish(news)) >= Len(Bullish(news)) THEN "High" ELSE "Medium")>>
  ELSE << >>

Directional(m, news) ==
  IF LabelIncludes(m.trendLabel, "Bull")
  THEN <<LongBtc(IF Len(Bullish(news)) > Len(Bearish(news)) THEN "High" ELSE "Medium")>>
  ELSE IF LabelIncludes(m.trendLabel, "Bear")
  THEN <<ShortBtc(IF Len(Bearish(news)) >= Len(Bullish(news)) THEN "High" ELSE "Medium")>>
  ELSE << >>

AltFlow(news) ==
  SelectSeq(HighImpact(news),
         LAMBDA n : n.source = EndpointName[4] \/ n.source = EndpointName[5])

RelativeValue(news) == IF Len(AltFlow(news)) > 0 THEN <<EthAlt>> ELSE << >>

\* RiskRegime without the liquidity test
RiskRegimeMut(m) ==
  IF m.volaLabel = "High Stress" THEN <<RiskWarning>> ELSE << >>

RiskRegime(m) ==
  IF m.volaLabel = "High Stress" \/ m.liqLabel = "Thinner" THEN <<RiskWarning>> ELSE << >>

\* Narrative on the first four High items only
NarrativeMut(news, edges) ==
  [k \in 1..Len(Slice(HighImpact(news), 4)) |->
     NewsIdea(HighImpact(news)[k], k - 1, edges[k])]

\* highImpact.slice(0, 5).forEach(...); edges[k]: the k-th Math.random() edge
Narrative(news, edges) ==
  [k \in 1..Len(Slice(HighImpact(news), 5)) |->
     NewsIdea(HighImpact(news)[k], k - 1, edges[k])]

\* Fallback without its test: the neutral idea is always appended
FallbackMut(ideas) == Append(ideas, NoEdge)

Fallback(ideas) == IF Len(ideas) = 0 THEN <<NoEdge>> ELSE ideas

\* Ideas with the risk warning pushed before the relative-value idea
IdeasMut(m, news, edges) ==
  Fallback(Directional(m, news) \o RiskRegime(m) \o RelativeValue(news)
           \o Narrative(news, edges))

\* the array the effect hands to setTradeIdeas
Ideas(m, news, edges) ==
  Fallback(Directional(m, news) \o RelativeValue(news) \o RiskRegime(m)
           \o Narrative(news, edges))

\* ------------------------------------------------------------ the inputs

RawItem(title, description, guid, link) ==
  [ description |-> description, guid |-> guid, link |-> link,
    pubDate |-> << >>, shape |-> "object", title |-> title ]

\* an `items` entry that is null
NullItem ==
  [ description |-> << >>, guid |-> << >>, link |-> << >>,
    pubDate |-> << >>, shape |-> "null", title |-> << >> ]

\* the two items of the spec's scenario: a title and nothing else
ItemListing ==
  RawItem(<<"B","i","n","a","n","c","e"," ","L","i","s","t","s"," ","N","e","w"," ","A","I"," ","T","o","k","e","n">>,
          << >>, << >>, << >>)

ItemBreaks ==
  RawItem(<<"B","i","t","c","o","i","n"," ","b","r","e","a","k","s"," ","k","e","y"," ","l","e","v","e","l">>,
          << >>, << >>, << >>)

\* items with a description: plain text, and markup with a URL
ItemFees ==
  RawItem(<<"F","e","e"," ","c","u","t">>,
          <<"F","e","e","s"," ","d","r","o","p">>,
          <<"g","-","1">>, << >>)

ItemMarkup ==
  RawItem(<<"R","a","t","e","s"," ","u","p">>,
          <<"<","p",">","R","e","a","d"," "," ","h","t","t","p","s",":","/","/","x",".","y","/","z"," ","n","o","w","<","/","p",">">>,
          << >>, <<"u","-","2">>)

Payload(items) == [items |-> items, shape |-> "array"]

\* a payload without an `items` field, and one whose `items` is no array
NoItemsPayload == [items |-> << >>, shape |-> "noitems"]

NotArrayPayload == [items |-> << >>, shape |-> "notarray"]

\* the k-th item of a long feed
BulkItem(i, k) ==
  RawItem(<<"n">> \o IntChars(i) \o <<"-">> \o IntChars(k), <<"x">>, << >>, << >>)

\* the length of a long feed: two of them exceed the cap of the merge
BulkLen == 31

BulkPayload(i) == Payload([k \in 1..BulkLen |-> BulkItem(i, k)])

\* the payloads a feed may deliver in the whole-pipeline specification
FeedMenu(i) ==
  CASE i = 1 -> {Payload(<<ItemListing>>), Payload(<<NullItem>>)}
    [] i = 2 -> {Payload(<<ItemFees>>)}
    [] i = 3 -> {NoItemsPayload}
    [] i = 4 -> {Payload(<<ItemBreaks>>)}
    [] OTHER -> {Payload(<<ItemMarkup>>)}

\* ... and in the specification of the news load alone
WideFeedMenu(i) ==
  FeedMenu(i)
  \cup (IF i \in {1, 2, 4} THEN {BulkPayload(i)} ELSE {})
  \cup (IF i = 3 THEN {Payload(<<ItemFees, NullItem>>)} ELSE {})
  \cup (IF i = 4 THEN {Payload(<<ItemBreaks, ItemBreaks>>)} ELSE {})
  \cup (IF i = 5 THEN {NotArrayPayload, Payload(<<ItemFees>>)} ELSE {})

\* ... and in the specification of the news load with the idea engine
LongFeedMenu(i) ==
  CASE i = 1 -> {BulkPayload(1)}
    [] i = 2 -> {BulkPayload(2), Payload(<<ItemFees>>)}
    [] OTHER -> FeedMenu(i)

Draw(impact, sentiment) == [impact |-> impact, sentiment |-> sentiment]

\* The Math.random() picks of one merge: a short cycle of picks repeated over
\* the first 50 items, and another over the items after them.
DrawPattern(cycle, late) == [cycle |-> cycle, late |-> late]

DrawPatterns ==
  { DrawPattern(<<Draw(3, 3)>>, <<Draw(3, 3)>>),
    DrawPattern(<<Draw(1, 1)>>, <<Draw(1, 1)>>),
    DrawPattern(<<Draw(1, 2)>>, <<Draw(2, 2)>>),
    DrawPattern(<<Draw(1, 3), Draw(2, 4)>>, <<Draw(1, 3), Draw(2, 4)>>),
    DrawPattern(<<Draw(2, 1), Draw(1, 2)>>, <<Draw(2, 1), Draw(1, 2)>>),
    DrawPattern(<<Draw(1, 2), Draw(1, 1), Draw(1, 1)>>, <<Draw(3, 1)>>),
    DrawPattern(<<Draw(2, 3)>>, <<Draw(1, 1), Draw(1, 2)>>),
    DrawPattern(<<Draw(1, 1), Draw(1, 2)>>, <<Draw(1, 1)>>) }

Cyclic(cycle, k) == cycle[((k - 1) % Len(cycle)) + 1]

Draws(pattern, n) ==
  [k \in 1..n |-> IF k <= 50 THEN Cyclic(pattern.cycle, k) ELSE Cyclic(pattern.late, k)]

\* the Math.random() edges of one run of the idea engine
EdgeMenu ==
  { <<"0.5%", "1.3%", "2.5%", "0.9%", "2.0%">>,
    <<"2.4%", "2.4%", "0.6%", "1.0%", "1.7%">> }

\* the price payloads of the correlated fetch
PriceMenu ==
  { NoData,
    [a \in Assets |-> IF a = "bitcoin" THEN Pct(2137) ELSE Pct(-4)],
    [a \in Assets |-> IF a = "render-token" THEN Pct(0) ELSE NoPct] }

Asset(chg, vol) == [chg |-> chg, vol |-> vol]

\* the payloads of the macro fetch in the whole-pipeline specification
MacroMenu ==
  { MacroPayload(Asset(Fig(500), Fig(30)), Asset(Fig(400), Fig(30))),
    MacroPayload(Asset(Fig(350), Fig(10)), Asset(Fig(330), Fig(5))),
    MacroPayload(Asset(Fig(310), Fig(15)), Asset(Fig(310), Fig(10))),
    MacroPayload(Asset(Fig(-200), Fig(15)), Asset(Fig(-100), Fig(10))),
    MacroPayload(Asset(Fig(50), Fig(10)), Asset(Fig(-50), Fig(5))),
    MacroPayload(NoAsset, NoAsset),
    NullMacroPayload }

\* ... and in the specification of the macro fetch alone
ChgGrid == {Fig(v) : v \in {-500, -400, -301, -300, -100, 0,
                           100, 300, 301, 400, 500}}
           \cup {AbsentFig, JunkFig}

VolGrid == {Fig(v) : v \in {0, 5, 10, 25, 26}} \cup {AbsentFig, JunkFig}

WideMacroMenu ==
  { MacroPayload(Asset(c1, v1), Asset(c2, v2)) :
      c1 \in ChgGrid, c2 \in ChgGrid, v1 \in VolGrid, v2 \in VolGrid }
  \cup {NullMacroPayload}

\* -------------------------------------------------------------- the state

VARIABLES
  feeds,        \* per endpoint: the fetch of loadNews, [st, res]
  newsLoad,     \* loadNews: "loading", "published" or "aborted" (global catch)
  dom,          \* window.document is available to cleanSummary
  liveNews,     \* useState([])
  priceReq,     \* the fetch of loadCorrelatedMoves: [st, news, tokens]
  macroReq,     \* the fetch of loadMacro: [st, data]
  macro,        \* useState({trendLabel: "Loading...", ...})
  tradeIdeas,   \* useState([])
  newsChanged,  \* liveNews was set since the effects last ran
  macroChanged, \* macro was set since the effects last ran
  enriched,     \* history: setLiveNews(updated) has run at least once
  call          \* a call of one of the pure functions: [arg, fn, out, st]

vars == <<feeds, newsLoad, dom, liveNews, priceReq, macroReq, macro,
          tradeIdeas, newsChanged, macroChanged, enriched, call>>

Pending == [res |-> NullResult, st |-> "pending"]

NoRequest == [data |-> NoData, news |-> << >>, st |-> "idle", tokens |-> << >>]

\* no function is being called
NoCall == [arg |-> << >>, fn |-> "none", out |-> << >>, st |-> "idle"]

\* After the first render and its effects: the five feed requests and the
\* macro request are in flight; the correlator and the idea engine found
\* liveNews empty and returned.
Mounted(doms) ==
  /\ feeds = [i \in Endpoints |-> Pending]
  /\ newsLoad = "loading"
  /\ dom \in doms
  /\ liveNews = << >>
  /\ priceReq = NoRequest
  /\ macroReq = [data |-> NullMacroPayload, st |-> "pending"]
  /\ macro = InitialMacro
  /\ tradeIdeas = << >>
  /\ newsChanged = FALSE
  /\ macroChanged = FALSE
  /\ enriched = FALSE

InitWith(doms) == Mounted(doms) /\ call = NoCall

Init == InitWith({TRUE})

\* fetch(src.url).then(r => r.json()) fulfils with a payload
FeedResolve(i, payload) ==
  /\ feeds[i].st = "pending"
  /\ feeds' = [feeds EXCEPT ![i] = [res |-> payload, st |-> "ok"]]
  /\ UNCHANGED <<newsLoad, dom, liveNews, priceReq, macroReq, macro,
                 tradeIdeas, newsChanged, macroChanged, enriched, call>>

\* ... or rejects (network, or a body that is no JSON): .catch returns null
FeedReject(i) ==
  /\ feeds[i].st = "pending"
  /\ feeds' = [feeds EXCEPT ![i] = [res |-> NullResult, st |-> "failed"]]
  /\ UNCHANGED <<newsLoad, dom, liveNews, priceReq, macroReq, macro,
                 tradeIdeas, newsChanged, macroChanged, enriched, call>>

Results == [i \in Endpoints |-> feeds[i].res]

\* AllSettled as a race: the first feed to settle lets the load go on
AllSettledMut == \E i \in Endpoints : feeds[i].st # "pending"

\* await Promise.all(...) has returned
AllSettled == \A i \in Endpoints : feeds[i].st # "pending"

\* loadNews after `await Promise.all(...)`: merge and setLiveNews
MergePublish(pattern) ==
  /\ newsLoad = "loading"
  /\ AllSettled
  /\ ~MergeThrows(Results)
  /\ liveNews' = Merged(Results,
                        Draws(pattern, Len(FlatRaw(FilterBoolean(Results), 1))), dom)
  /\ newsLoad' = "published"
  /\ newsChanged' = TRUE
  /\ UNCHANGED <<feeds, dom, priceReq, macroReq, macro, tradeIdeas, macroChanged, enriched, call>>

\* ... or the merge throws and the global catch logs it
MergeAbort ==
  /\ newsLoad = "loading"
  /\ AllSettled
  /\ MergeThrows(Results)
  /\ newsLoad' = "aborted"
  /\ UNCHANGED <<feeds, dom, liveNews, priceReq, macroReq, macro, tradeIdeas,
                 newsChanged, macroChanged, enriched, call>>

\* the correlator effect (deps [liveNews]): the request it issues, if any
CorrelatorEffect ==
  IF newsChanged /\ Len(liveNews) > 0 /\ Len(Tokens(liveNews)) > 0
  THEN [data |-> NoData, news |-> liveNews, st |-> "inflight",
        tokens |-> Tokens(liveNews)]
  ELSE priceReq

\* the idea effect (deps [macro, liveNews]): the list it leaves
IdeaEffect(edges) ==
  IF Len(liveNews) = 0 THEN tradeIdeas ELSE Ideas(macro, liveNews, edges)

\* React runs the effects whose dependencies changed, in source order
RunEffects ==
  /\ newsChanged \/ macroChanged
  /\ priceReq' = CorrelatorEffect
  /\ \E edges \in EdgeMenu : tradeIdeas' = IdeaEffect(edges)
  /\ newsChanged' = FALSE
  /\ macroChanged' = FALSE
  /\ UNCHANGED <<feeds, newsLoad, dom, liveNews, macroReq, macro, enriched, call>>

\* loadCorrelatedMoves after its awaits: setLiveNews(updated)
PriceResolve(data) ==
  /\ priceReq.st = "inflight"
  /\ liveNews' = Updated(priceReq.news, data)
  /\ newsChanged' = TRUE
  /\ priceReq' = [priceReq EXCEPT !.data = data, !.st = "done"]
  /\ enriched' = TRUE
  /\ UNCHANGED <<feeds, newsLoad, dom, macroReq, macro, tradeIdeas, macroChanged, call>>

\* ... or fetch / res.json() rejects, or data is null: the catch logs it
PriceReject ==
  /\ priceReq.st = "inflight"
  /\ priceReq' = [priceReq EXCEPT !.st = "failed"]
  /\ UNCHANGED <<feeds, newsLoad, dom, liveNews, macroReq, macro, tradeIdeas,
                 newsChanged, macroChanged, enriched, call>>

\* loadMacro after its awaits, on an object payload: setMacro
MacroResolve(data) ==
  /\ macroReq.st = "pending"
  /\ data.shape = "object"
  /\ macroReq' = [data |-> data, st |-> "ok"]
  /\ macro' = ComputeMacro(data)
  /\ macroChanged' = TRUE
  /\ UNCHANGED <<feeds, newsLoad, dom, liveNews, priceReq, tradeIdeas, newsChanged, enriched, call>>

\* ... or fetch / res.json() rejects, or data is null (data.bitcoin throws):
\* the catch logs it and macro keeps its value
MacroReject(data) ==
  /\ macroReq.st = "pending"
  /\ data.shape = "null"
  /\ macroReq' = [data |-> data, st |-> "failed"]
  /\ UNCHANGED <<feeds, newsLoad, dom, liveNews, priceReq, macro, tradeIdeas,
                 newsChanged, macroChanged, enriched, call>>

Next ==
  \/ \E i \in Endpoints : \E payload \in FeedMenu(i) : FeedResolve(i, payload)
  \/ \E i \in Endpoints : FeedReject(i)
  \/ \E pattern \in DrawPatterns : MergePublish(pattern)
  \/ MergeAbort
  \/ RunEffects
  \/ \E data \in PriceMenu : PriceResolve(data)
  \/ PriceReject
  \/ \E data \in MacroMenu : MacroResolve(data)
  \/ MacroReject(NullMacroPayload)

Spec == Init /\ [][Next]_vars

\* the news load alone, on the wide menus, with and without a DOM
NextNews ==
  \/ \E i \in Endpoints : \E payload \in WideFeedMenu(i) : FeedResolve(i, payload)
  \/ \E i \in Endpoints : FeedReject(i)
  \/ \E pattern \in DrawPatterns : MergePublish(pattern)
  \/ MergeAbort

SpecNews == InitWith(BOOLEAN) /\ [][NextNews]_vars

\* the macro fetch alone, on the wide menu
NextMacro ==
  \/ \E data \in WideMacroMenu : MacroResolve(data)
  \/ MacroReject(NullMacroPayload)

SpecMacro == Init /\ [][NextMacro]_vars

\* the news load on long feeds, the macro fetch and the effects; the price
\* request stays in flight
NextIdeas ==
  \/ \E i \in Endpoints : \E payload \in LongFeedMenu(i) : FeedResolve(i, payload)
  \/ \E i \in Endpoints : FeedReject(i)
  \/ \E pattern \in DrawPatterns : MergePublish(pattern)
  \/ RunEffects
  \/ \E data \in MacroMenu : MacroResolve(data)
  \/ MacroReject(NullMacroPayload)

SpecIdeas == Init /\ [][NextIdeas]_vars

\* the news load on long feeds, the effects and the price requests; the macro
\* request stays in flight
NextEnrich ==
  \/ \E i \in Endpoints : \E payload \in LongFeedMenu(i) : FeedResolve(i, payload)
  \/ \E i \in Endpoints : FeedReject(i)
  \/ \E pattern \in DrawPatterns : MergePublish(pattern)
  \/ RunEffects
  \/ \E data \in PriceMenu : PriceResolve(data)
  \/ PriceReject

SpecEnrich == Init /\ [][NextEnrich]_vars

\* two of the pick patterns, for the specifications that vary other inputs
LivePatterns ==
  { DrawPattern(<<Draw(3, 3)>>, <<Draw(3, 3)>>),
    DrawPattern(<<Draw(1, 1)>>, <<Draw(1, 1)>>) }

\* the macro payloads of the specification of the market regime: average
\* changes on both sides of every threshold, thin and deep volume
RegimeChg == {Fig(v) : v \in {-500, -400, -300, -250, -100, 0,
                              100, 250, 300, 400, 500}}
             \cup {AbsentFig, JunkFig}

RegimeMenu ==
  { MacroPayload(Asset(c1, v), Asset(c2, v)) :
      c1 \in RegimeChg, c2 \in {Fig(-400), Fig(-300), Fig(0), Fig(300), Fig(400)},
      v \in {Fig(5), Fig(30)} }

\* the news load, the macro fetch on the regime menu and the effects
NextRegime ==
  \/ \E i \in Endpoints : \E payload \in FeedMenu(i) : FeedResolve(i, payload)
  \/ FeedReject(1)
  \/ \E pattern \in LivePatterns : MergePublish(pattern)
  \/ MergeAbort
  \/ RunEffects
  \/ \E data \in RegimeMenu : MacroResolve(data)
  \/ MacroReject(NullMacroPayload)

SpecRegime == Init /\ [][NextRegime]_vars

\* the macro payload of the specification with fairness
LiveMacroMenu ==
  { MacroPayload(Asset(Fig(500), Fig(30)), Asset(Fig(400), Fig(30))) }

\* The whole pipeline when every price request is answered with a payload.
\* React runs a pending effect, a price request is answered, and the macro
\* request settles; the feeds have settled once the list is published.
NextLive ==
  \/ \E i \in Endpoints : \E payload \in FeedMenu(i) : FeedResolve(i, payload)
  \/ FeedReject(1)
  \/ \E pattern \in LivePatterns : MergePublish(pattern)
  \/ MergeAbort
  \/ RunEffects
  \/ \E data \in PriceMenu : PriceResolve(data)
  \/ \E data \in LiveMacroMenu : MacroResolve(data)
  \/ MacroReject(NullMacroPayload)

SpecLive ==
  /\ Init
  /\ [][NextLive]_vars
  /\ WF_vars(RunEffects)
  /\ WF_vars(\E data \in PriceMenu : PriceResolve(data))
  /\ WF_vars(\E data \in LiveMacroMenu \cup {NullMacroPayload} :
               MacroResolve(data) \/ MacroReject(data))

\* ------------------------------------------------- the pure functions, called

\* the words the texts handed to classifyCategory are made of: keywords of
\* every rule in several spellings, and words that hold no keyword or hold
\* one inside them
ClassifyWords ==
  { <<"A","I">>,
    <<"N","v","i","d","i","a">>,
    <<"R","O","L","L","U","P">>,
    <<"L","2">>,
    <<"S","t","a","k","i","n","g">>,
    <<"N","F","T">>,
    <<"D","e","F","i">>,
    <<"D","e","x">>,
    <<"S","o","l","a","n","a">>,
    <<"U","S","D","T">>,
    <<"p","r","i","c","e">>,
    <<"m","a","i","n","n","e","t">>,
    <<"S","o","l","i","d">> }

\* the texts: nothing (an empty or absent text), one word, two words
ClassifyTexts ==
  {<< >>} \cup ClassifyWords
  \cup {a \o <<" ">> \o b : a \in ClassifyWords, b \in ClassifyWords}

\* the pieces the inputs of cleanSummary are made of: tags, lone angle
\* brackets, character references, URL schemes with and without a rest, text
HtmlPieces ==
  { << >>,
    <<"<","p",">">>,
    <<"<","/","b",">">>,
    <<"<">>,
    <<">">>,
    <<"a">>,
    <<" ">>,
    <<"h","t","t","p",":","/","/">>,
    <<"h","t","t","p","s",":","/","/","x">>,
    <<"&","l","t",";">>,
    <<"&","g","t",";">>,
    <<"x",".","y">> }

HtmlTexts ==
  {a \o b \o c : a \in HtmlPieces, b \in HtmlPieces, c \in HtmlPieces}
  \cup {NotAString}

\* classifyCategory(text) or cleanSummary(html) has been called with arg
Called(fn, arg) == [arg |-> arg, fn |-> fn, out |-> << >>, st |-> "called"]

\* the component is mounted and one of the two functions has been called
InitCalls ==
  /\ Mounted(BOOLEAN)
  /\ call \in {Called("classifyCategory", t) : t \in ClassifyTexts}
              \cup {Called("cleanSummary", h) : h \in HtmlTexts}

\* classifyCategory returns
ClassifyReturn ==
  /\ call.fn = "classifyCategory"
  /\ call.st = "called"
  /\ call' = [call EXCEPT !.out = classifyCategory(call.arg), !.st = "returned"]
  /\ UNCHANGED <<feeds, newsLoad, dom, liveNews, priceReq, macroReq, macro,
                 tradeIdeas, newsChanged, macroChanged, enriched>>

\* cleanSummary returns
CleanReturn ==
  /\ call.fn = "cleanSummary"
  /\ call.st = "called"
  /\ call' = [call EXCEPT !.out = cleanSummary(call.arg, dom), !.st = "returned"]
  /\ UNCHANGED <<feeds, newsLoad, dom, liveNews, priceReq, macroReq, macro,
                 tradeIdeas, newsChanged, macroChanged, enriched>>

NextCalls ==
  \/ ClassifyReturn
  \/ CleanReturn

SpecCalls == InitCalls /\ [][NextCalls]_vars

\* ------------------------------------------------------------ the claims

\* the effects have run on the current liveNews and macro
IdeasCurrent == ~newsChanged /\ ~macroChanged

\* What the feeds delivered, read off the responses themselves: for every
\* endpoint e in order, every entry of its `items` array with e.
RECURSIVE DeliveredFrom(_)
DeliveredFrom(e) ==
  IF e > Len(EndpointName) THEN << >>
  ELSE [k \in 1..Len(ItemsOf(feeds[e].res)) |->
          [e |-> e, item |-> ItemsOf(feeds[e].res)[k]]]
       \o DeliveredFrom(e + 1)

Delivered == DeliveredFrom(1)

TitlesOf(news) == [n \in 1..Len(news) |-> news[n].title]

IdsOf(ideas) == [n \in 1..Len(ideas) |-> ideas[n].id]

\* C1: once the news load has published its list and the effects have run,
\* the idea list holds at least one idea, also when the news list is empty.
C1_IdeasNonEmpty ==
  (newsLoad = "published" /\ IdeasCurrent) => Len(tradeIdeas) >= 1

\* C2: every published NewsItem names, in source, in its first tag and in
\* the provider part of a fallback id, the provider that delivered it.
C2_SourceIsProvider ==
  newsLoad = "published" =>
    \A n \in 1..Len(liveNews) :
       LET name == EndpointName[Delivered[n].e]
           item == Delivered[n].item
       IN /\ liveNews[n].source = name
          /\ liveNews[n].tags[1] = name
          /\ (item.guid = << >> /\ item.link = << >>)
               => liveNews[n].id = name \o <<"-">> \o liveNews[n].title

\* some feed that answered delivered an `items` array with a null entry
SomeNullEntry ==
  \E n \in 1..Len(Delivered) : Delivered[n].item.shape = "null"

\* C3: whichever feeds fail, the load publishes (it aborts only on a null
\* entry of a delivered array, the case of C4), and the published list is
\* the items of the feeds that answered, in endpoint order and in each
\* feed's own order, cut to the first 60.
C3_FailureIsolation ==
  /\ newsLoad = "aborted" => SomeNullEntry
  /\ newsLoad = "published" =>
       TitlesOf(liveNews) =
         [n \in 1..(IF Len(Delivered) < 60 THEN Len(Delivered) ELSE 60) |->
            OrElse(Delivered[n].item.title, Untitled)]

\* C3's case: a feed failed, a later feed answered with items, more than 60
\* items were delivered and 60 were published.
C3_Witness ==
  /\ newsLoad = "published"
  /\ \E e1, e2 \in Endpoints :
        /\ e1 < e2
        /\ feeds[e1].st = "failed"
        /\ feeds[e2].st = "ok"
        /\ Len(ItemsOf(feeds[e2].res)) > 0
  /\ Len(Delivered) > 60
  /\ Len(liveNews) = 60

\* the feeds that answered with a payload that is not well formed
Malformed(e) ==
  /\ feeds[e].st = "ok"
  /\ \/ feeds[e].res.shape \in {"noitems", "notarray"}
     \/ \E k \in 1..Len(ItemsOf(feeds[e].res)) : ItemsOf(feeds[e].res)[k].shape = "null"

RECURSIVE WellFormedFrom(_)
WellFormedFrom(e) ==
  IF e > Len(EndpointName) THEN << >>
  ELSE (IF Malformed(e) THEN << >>
        ELSE [k \in 1..Len(ItemsOf(feeds[e].res)) |->
                OrElse(ItemsOf(feeds[e].res)[k].title, Untitled)])
       \o WellFormedFrom(e + 1)

\* C4: a malformed payload contributes nothing and costs nothing else: once
\* all feeds have settled and the load has run, the list is published and
\* holds the items of the well-formed payloads.
C4_MalformedIsolated ==
  (AllSettled /\ newsLoad # "loading") =>
     /\ newsLoad = "published"
     /\ TitlesOf(liveNews) = Slice(WellFormedFrom(1), 60)

AllKeywords ==
  KwAI \cup KwLayer2 \cup KwLST \cup KwGaming \cup KwDeFi \cup KwSolana \cup KwStable

NoKeywordIn(t) == \A kw \in AllKeywords : ~includes(toLowerCase(t), kw)

\* C5: an item whose title and description hold no keyword is General.
C5_NoKeywordIsGeneral ==
  newsLoad = "published" =>
    \A n \in 1..Len(liveNews) :
       (NoKeywordIn(Delivered[n].item.title) /\ NoKeywordIn(Delivered[n].item.description))
         => liveNews[n].category = "General"

\* the case of C6: the engine has published for a Strong Bull snapshot and
\* a news list without a High item among its first 50
StrongBullNoHigh ==
  /\ IdeasCurrent
  /\ Len(liveNews) > 0
  /\ macro.trendLabel = "Strong Bull"
  /\ \A n \in 1..Len(liveNews) : n <= 50 => liveNews[n].impact # "High"

\* C6 as stated: then the list is exactly the long-BTC idea.
C6_OnlyLongBtc ==
  StrongBullNoHigh => IdsOf(tradeIdeas) = <<"long-btc">>

\* C6 as amended: then the list is the long-BTC idea (conviction Medium),
\* followed by the risk warning exactly when volatility is High Stress or
\* liquidity is Thinner.
C6_LongBtcThenRisk ==
  StrongBullNoHigh =>
    /\ tradeIdeas[1] = LongBtc("Medium")
    /\ IF macro.volaLabel = "High Stress" \/ macro.liqLabel = "Thinner"
       THEN Len(tradeIdeas) = 2 /\ tradeIdeas[2].id = "risk-warning"
       ELSE Len(tradeIdeas) = 1

\* C6's case, with High items after the first 50
C6_Witness ==
  /\ StrongBullNoHigh
  /\ \E n \in 1..Len(liveNews) : n > 50 /\ liveNews[n].impact = "High"
  /\ macro.volaLabel = "Elevated"
  /\ macro.liqLabel = "Thinner"
  /\ IdsOf(tradeIdeas) = <<"long-btc", "risk-warning">>

\* the macro payload arrived with numbers for both changes, summing to s
\* (hundredths of a percent): the average is s/200 percent
ChangesSumTo(s) ==
  /\ macroReq.st = "ok"
  /\ macroReq.data.btc.chg.k = "num"
  /\ macroReq.data.eth.chg.k = "num"
  /\ macroReq.data.btc.chg.v + macroReq.data.eth.chg.v = s

\* C7 as stated: an average of exactly 3.0 gives Sideways, 3.01 Strong Bull.
C7_ThreeIsSideways ==
  /\ ChangesSumTo(600) => macro.trendLabel = "Sideways"
  /\ ChangesSumTo(602) => macro.trendLabel = "Strong Bull"

\* C7 as amended: an average of exactly 3.0 gives Mild Bull (not Strong
\* Bull), 3.01 Strong Bull.
C7_ThreeIsMildBull ==
  /\ ChangesSumTo(600) => macro.trendLabel = "Mild Bull"
  /\ ChangesSumTo(602) => macro.trendLabel = "Strong Bull"

C7_Witness == ChangesSumTo(600) /\ macro.trendLabel = "Mild Bull"

\* a figure that is a number, or absent and read as 0
Numeric(f) == f.k \in {"num", "absent"}

ValueOf(f) == IF f.k = "num" THEN f.v ELSE 0

\* C8: the snapshot is the spec's tables on avgChange and totalVolume, with
\* strict inequalities; s is twice the average in hundredths of a percent,
\* t the total volume in units of 1e9.
C8_ThresholdTables ==
  (/\ macroReq.st = "ok"
   /\ Numeric(macroReq.data.btc.chg) /\ Numeric(macroReq.data.eth.chg)
   /\ Numeric(macroReq.data.btc.vol) /\ Numeric(macroReq.data.eth.vol)) =>
    LET s == ValueOf(macroReq.data.btc.chg) + ValueOf(macroReq.data.eth.chg)
        a == IF s < 0 THEN -s ELSE s
        t == ValueOf(macroReq.data.btc.vol) + ValueOf(macroReq.data.eth.vol)
    IN /\ (s > 600) <=> (macro.trendLabel = "Strong Bull")
       /\ (200 < s /\ s <= 600) <=> (macro.trendLabel = "Mild Bull")
       /\ (s < -600) <=> (macro.trendLabel = "Strong Bear")
       /\ (-600 <= s /\ s < -200) <=> (macro.trendLabel = "Mild Bear")
       /\ (-200 <= s /\ s <= 200) <=> (macro.trendLabel = "Sideways")
       /\ (a > 800) <=> (macro.volaLabel = "High Stress")
       /\ (400 < a /\ a <= 800) <=> (macro.volaLabel = "Elevated")
       /\ (a <= 400) <=> (macro.volaLabel = "Calm")
       /\ (t > 50) <=> (macro.liqLabel = "Deep")
       /\ (20 < t /\ t <= 50) <=> (macro.liqLabel = "Normal")
       /\ (0 < t /\ t <= 20) <=> (macro.liqLabel = "Thinner")
       /\ (t <= 0) <=> (macro.liqLabel = "Unknown")

\* C8's example: changes +5 and +4, volumes 10e9 and 5e9
C8_Witness ==
  /\ macroReq.st = "ok"
  /\ macroReq.data = MacroPayload(Asset(Fig(500), Fig(10)), Asset(Fig(400), Fig(5)))
  /\ macro.trendLabel = "Strong Bull"
  /\ macro.volaLabel = "High Stress"
  /\ macro.liqLabel = "Thinner"

\* C9: after a macro request that failed, or whose payload lacks both
\* assets, the snapshot is Sideways, Calm, Unknown.
C9_SafeDefaults ==
  (\/ macroReq.st = "failed"
   \/ macroReq.st = "ok" /\ macroReq.data = MacroPayload(NoAsset, NoAsset)) =>
    /\ macro.trendLabel = "Sideways"
    /\ macro.volaLabel = "Calm"
    /\ macro.liqLabel = "Unknown"

\* C10: in every state the three labels are members of their enumerations.
C10_LabelsInEnum ==
  /\ macro.trendLabel \in {"Strong Bull", "Mild Bull", "Sideways", "Mild Bear", "Strong Bear"}
  /\ macro.volaLabel \in {"Calm", "Elevated", "High Stress"}
  /\ macro.liqLabel \in {"Unknown", "Thinner", "Normal", "Deep"}

\* C11: after a price request that failed (network or parse error), every
\* item of the news list carries the N/A sentinel, also when an earlier
\* request had succeeded.
C11_FailureLeavesNA ==
  priceReq.st = "failed" =>
    \A n \in 1..Len(liveNews) : liveNews[n].priceMove = NA

\* C12: the idea list is written only after the macro estimator has published
\* a computed snapshot and the correlator has produced the enriched news
\* list.  (Every list the engine writes is non-empty, so a non-empty idea
\* list is one that was written.)
C12_IdeasAfterInputs ==
  Len(tradeIdeas) > 0 => (macroReq.st = "ok" /\ enriched)

\* C13: in every published news list the ids are pairwise distinct.
C13_IdsDistinct ==
  newsLoad = "published" =>
    \A m, n \in 1..Len(liveNews) : m # n => liveNews[m].id # liveNews[n].id

\* C14: in every reachable state, after the merge and after any number of
\* enrichment passes, the news list has at most 60 items.
C14_AtMost60 == Len(liveNews) <= 60

\* C14's case: more than 60 items were delivered, and the list has been
\* through an enrichment pass that changed it
C14_Witness ==
  /\ Len(Delivered) > 60
  /\ enriched
  /\ \E n \in 1..Len(liveNews) : liveNews[n].priceMove # NA
  /\ Len(liveNews) = 60

\* the rules of the classifier in their fixed order
RuleKeywords == <<KwAI, KwLayer2, KwLST, KwGaming, KwDeFi, KwSolana, KwStable>>

RuleCategory == <<"AI", "Layer2", "LST", "Gaming", "DeFi", "Solana", "Stable">>

\* rule r has a keyword that occurs in t, whatever the case of t's letters
RuleMatches(r, t) ==
  \E kw \in RuleKeywords[r] : \E i \in 1..Len(t) :
     /\ i + Len(kw) - 1 <= Len(t)
     /\ \A j \in 1..Len(kw) : LowerChar(t[i + j - 1]) = kw[j]

\* C15: every call of classify returns, and returns the category of the
\* first rule (AI, Layer2, LST, Gaming, DeFi, Solana, Stable) one of whose
\* keywords occurs case-insensitively in the text, or General when no rule
\* matches or the text is empty or absent; the result is a function of the
\* text alone.
C15_FirstRuleWins ==
  (call.fn = "classifyCategory" /\ call.st = "returned") =>
    IF \E r \in 1..7 : RuleMatches(r, call.arg)
    THEN LET first == CHOOSE r \in 1..7 :
                        /\ RuleMatches(r, call.arg)
                        /\ \A q \in 1..(r - 1) : ~RuleMatches(q, call.arg)
         IN call.out = RuleCategory[first]
    ELSE call.out = "General"

\* C15's case: a text matching the DeFi and the Solana rule is DeFi
C15_Witness ==
  /\ call.fn = "classifyCategory"
  /\ call.st = "returned"
  /\ call.arg = <<"S","o","l","a","n","a"," ","D","e","x">>
  /\ call.out = "DeFi"

\* a URL in t: http:// or https:// followed by a character that is no space
HasUrl(t) ==
  \E i \in 1..Len(t) : \E p \in {HttpPrefix, HttpsPrefix} :
     /\ i + Len(p) <= Len(t)
     /\ SubSeq(t, i, i + Len(p) - 1) = p
     /\ t[i + Len(p)] \notin Whitespace

\* C16: for every string input, the output of normalize holds neither "<"
\* nor ">" and no http:// or https:// followed by non-space characters.
C16_NoMarkupNoUrl ==
  (call.fn = "cleanSummary" /\ call.st = "returned" /\ call.arg # NotAString) =>
    /\ \A i \in 1..Len(call.out) : call.out[i] \notin {"<", ">"}
    /\ ~HasUrl(call.out)

\* the URL half of C16 alone
C16_NoUrl ==
  (call.fn = "cleanSummary" /\ call.st = "returned") => ~HasUrl(call.out)

\* the decimal digits of r hundredths, with two decimal places
TwoPlaces(r) ==
  IntChars(r \div 100) \o <<".">> \o IntChars((r % 100) \div 10) \o IntChars(r % 10)

\* text is p (thousandths of a percent) rounded to two decimal places, with
\* an explicit leading sign and a percent suffix
SignedRounded(text, p) ==
  LET m == IF p < 0 THEN -p ELSE p
  IN \E sign \in {"+", "-"} : \E r \in (m \div 10)..((m \div 10) + 1) :
        /\ p > 0 => sign = "+"
        /\ p < 0 => sign = "-"
        /\ 10 * r - m <= 5 /\ m - 10 * r <= 5
        /\ text = <<sign>> \o TwoPlaces(r) \o <<"%">>

\* C17: after a successful enrichment every item whose category's asset has
\* a numeric change p carries p rounded to two places with an explicit sign
\* and a percent suffix, and every item whose asset is missing from the
\* payload or has no numeric change carries N/A.
C17_SignedTwoPlaces ==
  priceReq.st = "done" =>
    \A n \in 1..Len(liveNews) :
       LET info == priceReq.data[CategoryAsset(liveNews[n].category)]
       IN IF info.k = "num"
          THEN SignedRounded(liveNews[n].priceMove, info.v)
          ELSE liveNews[n].priceMove = NA

\* C17 for the changes that are not zero, and N/A
C17_NonZero ==
  priceReq.st = "done" =>
    \A n \in 1..Len(liveNews) :
       LET info == priceReq.data[CategoryAsset(liveNews[n].category)]
       IN IF info.k = "num"
          THEN info.v # 0 => SignedRounded(liveNews[n].priceMove, info.v)
          ELSE liveNews[n].priceMove = NA

\* the n-th item of the news list was delivered by a media-aggregator feed
FromAggregator(n) == Delivered[n].e \in {4, 5}

\* some High item among the first 50 was delivered by a media aggregator
AggregatorHigh ==
  \E n \in 1..Len(liveNews) :
     n <= 50 /\ liveNews[n].impact = "High" /\ FromAggregator(n)

PairsTrades == SelectSeq(tradeIdeas, LAMBDA idea : idea.tag = "PAIRS TRADE")

\* C18: once the engine has run on a published news list, the idea list
\* holds exactly one PAIRS TRADE idea, of conviction Medium, if some High
\* item among the first 50 came from Cointelegraph or Coindesk, and no such
\* idea otherwise.
C18_PairsTradeIffAggregator ==
  (newsLoad = "published" /\ Len(liveNews) > 0 /\ IdeasCurrent) =>
    IF AggregatorHigh
    THEN Len(PairsTrades) = 1 /\ PairsTrades[1].conviction = "Medium"
    ELSE Len(PairsTrades) = 0

\* the number of High items of the given sentiment among the first 50
HighCount(sentiment) ==
  Cardinality({n \in 1..Len(liveNews) :
                 /\ n <= 50
                 /\ liveNews[n].impact = "High"
                 /\ liveNews[n].sentiment = sentiment})

Longs == SelectSeq(tradeIdeas, LAMBDA idea : idea.id = "long-btc")

Shorts == SelectSeq(tradeIdeas, LAMBDA idea : idea.id = "short-btc")

DirectionalIdeas == SelectSeq(tradeIdeas, LAMBDA idea : idea.category = "Directional")

\* the engine has run on the current macro snapshot and a news list with items
EngineRan == IdeasCurrent /\ Len(liveNews) > 0

\* C19: in every list the engine publishes: under a Bull trend exactly one
\* long-BTC idea, High iff the Bullish High items among the first 50
\* outnumber the Bearish ones, else Medium; under a Bear trend exactly one
\* short-BTC idea, High iff the Bearish count is at least the Bullish count,
\* else Medium; under any other trend label no directional idea; never both.
C19_DirectionalRule ==
  EngineRan =>
    /\ macro.trendLabel \in {"Strong Bull", "Mild Bull"} =>
         /\ Len(Longs) = 1 /\ Len(Shorts) = 0 /\ Len(DirectionalIdeas) = 1
         /\ Longs[1].conviction =
              (IF HighCount("Bullish") > HighCount("Bearish") THEN "High" ELSE "Medium")
    /\ macro.trendLabel \in {"Strong Bear", "Mild Bear"} =>
         /\ Len(Shorts) = 1 /\ Len(Longs) = 0 /\ Len(DirectionalIdeas) = 1
         /\ Shorts[1].conviction =
              (IF HighCount("Bearish") >= HighCount("Bullish") THEN "High" ELSE "Medium")
    /\ macro.trendLabel \notin {"Strong Bull", "Mild Bull", "Strong Bear", "Mild Bear"} =>
         Len(DirectionalIdeas) = 0
    /\ Len(Longs) + Len(Shorts) <= 1

\* C19's case: a Bull trend and a tie of 25 Bullish and 25 Bearish High
\* items among the first 50, with more Bullish ones after them: Medium
C19_Witness ==
  /\ EngineRan
  /\ macro.trendLabel \in {"Strong Bull", "Mild Bull"}
  /\ HighCount("Bullish") = HighCount("Bearish")
  /\ HighCount("Bullish") > 0
  /\ \E n \in 1..Len(liveNews) :
        n > 50 /\ liveNews[n].impact = "High" /\ liveNews[n].sentiment = "Bullish"
  /\ Len(Longs) = 1
  /\ Longs[1].conviction = "Medium"


Neutrals == SelectSeq(tradeIdeas, LAMBDA idea : idea.tag = "NO STRONG EDGE")

RuleIdeas ==
  SelectSeq(tradeIdeas,
            LAMBDA idea : idea.category \in {"Directional", "Relative Value",
                                             "Risk Management", "Narrative"})

\* none of the rules before the fallback applies to the current inputs: the
\* trend is neither Bull nor Bear, volatility is not High Stress, liquidity
\* is not Thinner, and no item among the first 50 is High
NoRuleApplies ==
  /\ macro.trendLabel \notin {"Strong Bull", "Mild Bull", "Strong Bear", "Mild Bear"}
  /\ macro.volaLabel # "High Stress"
  /\ macro.liqLabel # "Thinner"
  /\ \A n \in 1..Len(liveNews) : n <= 50 => liveNews[n].impact # "High"

\* C20: in every idea list the engine publishes, the NO STRONG EDGE idea is
\* present if and only if no directional, relative-value, risk-warning or
\* narrative idea was emitted, and when present it is the only element.
C20_FallbackExclusive ==
  /\ Len(tradeIdeas) > 0 =>
       /\ (Len(Neutrals) > 0) <=> (Len(RuleIdeas) = 0)
       /\ Len(Neutrals) > 0 => tradeIdeas = <<NoEdge>>
       /\ Len(Neutrals) + Len(RuleIdeas) = Len(tradeIdeas)
  /\ EngineRan => ((Len(Neutrals) > 0) <=> NoRuleApplies)

\* C20's case: the engine ran on a computed Sideways, Calm snapshot and a
\* news list without a High item, and published the neutral idea alone
C20_Witness ==
  /\ EngineRan
  /\ macro.trendLabel = "Sideways"
  /\ macro.volaLabel = "Calm"
  /\ tradeIdeas = <<NoEdge>>

Narratives == SelectSeq(tradeIdeas, LAMBDA idea : idea.category = "Narrative")

\* the positions of the High items among the first 50 news items
HighPositions == {n \in 1..Len(liveNews) : n <= 50 /\ liveNews[n].impact = "High"}

\* the k-th of them (k from 0), in input order
HighPosition(k) ==
  CHOOSE n \in HighPositions : Cardinality({j \in HighPositions : j < n}) = k

\* C21: in every list the engine publishes there are exactly min(5, h)
\* narrative ideas, h the number of High items among the first 50; the k-th
\* (from 0) is made from the k-th such item in input order (its source and
\* sentiment in the title, its summary cut to 120 characters), is tagged
\* MOMO LONG for Bullish, MOMO SHORT for Bearish and THEME IDEA otherwise,
\* and has conviction Medium for even k and Low for odd k.
C21_NarrativeRule ==
  EngineRan =>
    /\ Len(Narratives) =
         (IF Cardinality(HighPositions) < 5 THEN Cardinality(HighPositions) ELSE 5)
    /\ \A k \in 0..(Len(Narratives) - 1) :
          LET n == liveNews[HighPosition(k)]
              idea == Narratives[k + 1]
          IN /\ idea.tag = (IF n.sentiment = "Bullish" THEN "MOMO LONG"
                            ELSE IF n.sentiment = "Bearish" THEN "MOMO SHORT"
                            ELSE "THEME IDEA")
             /\ idea.conviction = (IF k % 2 = 0 THEN "Medium" ELSE "Low")
             /\ idea.title = <<"Play ">> \o n.source \o <<" narrative on ", n.sentiment, " flow">>
             /\ idea.summary =
                  SubSeq(n.summary, 1, IF Len(n.summary) < 120 THEN Len(n.summary) ELSE 120)
                  \o <<"...">>

\* C21's case: more than five High items among the first 50, of both
\* sentiments and of neither, and five narrative ideas
C21_Witness ==
  /\ EngineRan
  /\ Cardinality(HighPositions) > 5
  /\ Len(Narratives) = 5
  /\ \E a, b \in 1..5 : Narratives[a].tag = "MOMO LONG" /\ Narratives[b].tag = "MOMO SHORT"

\* news with every item after the first 50 given this impact, sentiment
\* and source, and another summary
TailReplaced(news, impact, sentiment, source) ==
  [n \in 1..Len(news) |->
     IF n <= 50 THEN news[n]
     ELSE [news[n] EXCEPT !.impact = impact, !.sentiment = sentiment,
                          !.source = source, !.summary = <<"x">>]]

\* C22: the idea list the engine published is the list it makes, under the
\* same macro snapshot and the same edge draws, of every news list that
\* agrees with the current one on the first 50 items and differs after
\* them in impact, sentiment, source or summary.
C22_OnlyFirst50 ==
  EngineRan =>
    \E edges \in EdgeMenu :
       /\ tradeIdeas = Ideas(macro, liveNews, edges)
       /\ \A impact \in {"High", "Medium", "Low"} :
          \A sentiment \in {"Bullish", "Bearish", "Neutral"} :
          \A source \in {EndpointName[1], EndpointName[5]} :
             Ideas(macro, TailReplaced(liveNews, impact, sentiment, source), edges)
               = tradeIdeas

\* C22's case: the list has High items after position 50 and none among
\* the first 50, and the engine published no narrative idea
C22_Witness ==
  /\ EngineRan
  /\ \E n \in 1..Len(liveNews) : n > 50 /\ liveNews[n].impact = "High"
  /\ \A n \in 1..Len(liveNews) : n <= 50 => liveNews[n].impact # "High"
  /\ \A k \in 1..Len(tradeIdeas) : tradeIdeas[k].category # "Narrative"

\* the place of an idea's rule in the emission order
RuleRank(idea) ==
  CASE idea.category = "Directional" -> 1
    [] idea.category = "Relative Value" -> 2
    [] idea.category = "Risk Management" -> 3
    [] idea.category = "Narrative" -> 4
    [] OTHER -> 5

RiskWarnings == SelectSeq(tradeIdeas, LAMBDA idea : idea.category = "Risk Management")

RelativeValues == SelectSeq(tradeIdeas, LAMBDA idea : idea.category = "Relative Value")

\* C23: every published idea list is in rule-emission order: at most one
\* directional idea, then at most one relative-value idea, then at most one
\* risk warning (present iff volatility is High Stress or liquidity is
\* Thinner), then the narrative ideas in input order, then the fallback;
\* it has at most 8 ideas and their ids are pairwise distinct.
C23_EmissionOrder ==
  /\ \A a, b \in 1..Len(tradeIdeas) :
        a < b => /\ RuleRank(tradeIdeas[a]) <= RuleRank(tradeIdeas[b])
                 /\ tradeIdeas[a].id # tradeIdeas[b].id
  /\ Len(DirectionalIdeas) <= 1
  /\ Len(RelativeValues) <= 1
  /\ Len(RiskWarnings) <= 1
  /\ \A k \in 1..Len(Narratives) : Narratives[k].id = NewsIdeaId[k]
  /\ Len(tradeIdeas) <= 8
  /\ EngineRan =>
       /\ (Len(RiskWarnings) = 1)
            <=> (macro.volaLabel = "High Stress" \/ macro.liqLabel = "Thinner")
       /\ \A k \in 1..Len(Narratives) :
             Narratives[k].title =
               <<"Play ">> \o liveNews[HighPosition(k - 1)].source
               \o <<" narrative on ", liveNews[HighPosition(k - 1)].sentiment, " flow">>

\* C23's case: a list of 8 ideas, one of every rule but the fallback
C23_Witness ==
  /\ EngineRan
  /\ Len(tradeIdeas) = 8
  /\ Len(DirectionalIdeas) = 1
  /\ Len(RelativeValues) = 1
  /\ Len(RiskWarnings) = 1
  /\ Len(Narratives) = 5

\* a feed request is still in flight
SomeFeedInFlight == \E i \in Endpoints : feeds[i].st \notin {"ok", "failed"}

\* C24: the news list is published only after all five feed requests have
\* settled; as long as one of them is in flight the list is unpublished and
\* empty, whatever the other four did, and no price request has been issued,
\* no enrichment has run and no idea list has been written.
C24_FanIn ==
  SomeFeedInFlight =>
    /\ newsLoad = "loading"
    /\ liveNews = << >>
    /\ priceReq.st = "idle"
    /\ ~enriched
    /\ tradeIdeas = << >>

\* C24's case: four feeds have answered, three of them with items, one is in
\* flight, the macro snapshot is computed and the effects have run on it
C24_Witness ==
  /\ Cardinality({i \in Endpoints : feeds[i].st = "ok"}) = 4
  /\ Cardinality({i \in Endpoints : feeds[i].st = "pending"}) = 1
  /\ Len(Delivered) >= 3
  /\ macroReq.st = "ok"
  /\ IdeasCurrent
  /\ liveNews = << >>
  /\ tradeIdeas = << >>

\* the assets the static table maps the categories of a news list to
NeededAssets(news) ==
  { CASE news[n].category = "AI" -> "render-token"
      [] news[n].category = "Layer2" -> "matic-network"
      [] news[n].category = "LST" -> "lido-dao"
      [] news[n].category = "Gaming" -> "immutable-x"
      [] news[n].category = "DeFi" -> "uniswap"
      [] news[n].category = "Solana" -> "solana"
      [] news[n].category = "Stable" -> "tether"
      [] news[n].category = "General" -> "bitcoin" : n \in 1..Len(news) }

\* C25: no price request is issued while the news list is empty; a run
\* issues one request, for the news list current at that time; its list of
\* asset ids has no duplicates and is exactly the set of assets the static
\* table maps the categories of that news list to.
C25_OneDedupedRequest ==
  /\ Len(liveNews) = 0 => priceReq.st = "idle"
  /\ priceReq.st = "inflight" => priceReq.news = liveNews
  /\ priceReq.st # "idle" =>
       /\ Len(priceReq.news) > 0
       /\ \A a, b \in 1..Len(priceReq.tokens) :
             a # b => priceReq.tokens[a] # priceReq.tokens[b]
       /\ {priceReq.tokens[a] : a \in 1..Len(priceReq.tokens)}
            = NeededAssets(priceReq.news)

\* C25's case: a request in flight for a list in which two items share a
\* category and a third has another
C25_Witness ==
  /\ priceReq.st = "inflight"
  /\ Len(priceReq.tokens) >= 2
  /\ Len(priceReq.tokens) < Len(liveNews)

\* no fetch is in flight and no recomputation is pending
Quiescent ==
  /\ \A i \in Endpoints : feeds[i].st # "pending"
  /\ macroReq.st # "pending"
  /\ priceReq.st # "inflight"
  /\ ~newsChanged
  /\ ~macroChanged

\* C26: after a news load that yields at least one item, when every price
\* request is answered, the system reaches a state from which on no fetch
\* is in flight and no recomputation is pending (so only finitely many
\* price requests are issued and the lists no longer change).
C26_Quiescence ==
  []((newsLoad = "published" /\ Len(liveNews) > 0) => <>[]Quiescent)

\* the weaker statement that no price request stays in flight for ever
C26_RequestsAnswered == (priceReq.st = "inflight") ~> (priceReq.st = "done")

\* the item with its price move blanked: every other field as it is
SansMove(n) == [n EXCEPT !.priceMove = NA]

\* C27: once the list is published, no step changes its length, the order of
\* its items or any field of an item other than the price move (id, title,
\* source, publish date, category, summary, tags, sentiment and impact stay
\* as the merge made them).
C27_OnlyPriceMove ==
  [][newsLoad = "published" =>
       /\ Len(liveNews') = Len(liveNews)
       /\ \A k \in 1..Len(liveNews) : SansMove(liveNews'[k]) = SansMove(liveNews[k])]_vars

\* an enrichment pass has rewritten the price move of some item of a list of
\* several items with drawn sentiment and impact
C27_Witness ==
  /\ enriched
  /\ priceReq.st = "done"
  /\ Len(liveNews) >= 2
  /\ \E k \in 1..Len(liveNews) : liveNews[k].priceMove # NA
  /\ \E k \in 1..Len(liveNews) : liveNews[k].impact = "High"

\* C28: in every computed macro snapshot High Stress comes only with a
\* Strong trend, a Sideways trend only with Calm, and a Mild trend never with
\* High Stress; hence an idea list with a risk warning under High Stress
\* holds exactly one directional BTC idea.
C28_TrendVolaConsistent ==
  /\ macroReq.st = "ok" =>
       /\ macro.volaLabel = "High Stress" => macro.trendLabel \in {"Strong Bull", "Strong Bear"}
       /\ macro.trendLabel = "Sideways" => macro.volaLabel = "Calm"
       /\ macro.trendLabel \in {"Mild Bull", "Mild Bear"} => macro.volaLabel # "High Stress"
  /\ (Len(RiskWarnings) > 0 /\ macro.volaLabel = "High Stress") =>
       /\ Len(DirectionalIdeas) = 1
       /\ Len(Longs) + Len(Shorts) = 1
       /\ tradeIdeas[1].category = "Directional"

\* the engine has published a risk warning under a High Stress, Strong Bear
\* snapshot of deep liquidity, together with the short-BTC idea
C28_Witness ==
  /\ EngineRan
  /\ macroReq.st = "ok"
  /\ macro.volaLabel = "High Stress"
  /\ macro.trendLabel = "Strong Bear"
  /\ macro.liqLabel # "Thinner"
  /\ Len(RiskWarnings) = 1
  /\ Len(Shorts) = 1

\* the other regimes of the claim are computed too
C28_WitnessMildElevated ==
  /\ EngineRan
  /\ macro.trendLabel = "Mild Bull"
  /\ macro.volaLabel = "Elevated"

C28_WitnessSidewaysThin ==
  /\ EngineRan
  /\ macro.trendLabel = "Sideways"
  /\ macro.liqLabel = "Thinner"
  /\ Len(RiskWarnings) = 1
  /\ Len(DirectionalIdeas) = 0
====
